---- MODULE Spec2Model ----
(***************************************************************************)
(* Contract review pipeline: ContractReviewOrchestrator.process_contract   *)
(* (src/adk/orchestrator.py) over the MemoryBank (src/memory/              *)
(* memory_bank.py) and the SQLite DatabaseSessionService (src/memory/      *)
(* session_service.py).                                                    *)
(*                                                                         *)
(* Python Optional values are modelled as sequences of length 0 (None) or  *)
(* 1 (a value); Python lists as sequences; "truthy" is "non-empty".        *)
(***************************************************************************)
EXTENDS Integers, Sequences, FiniteSets, TLC

\* ----------------------------------------------------------------- bounds
MaxClauses == 2
MaxCalls == 2
MaxStores == 2

SessionIds == {"s1"}
Files == {"file_a"}
ClauseIds == 1..MaxClauses

\* ------------------------------------------------------------ data model
Severities == {"low", "medium", "high"}

\* adk/models.py ContractMetadata: the attributes the struct has
ContractMetadataFields == {"parties", "date", "jurisdiction", "contract_type"}

DEFAULT_USER == "default_user"

StateKeys == {"extracted_clauses", "risk_assessments", "redline_proposals",
              "negotiation_summary", "audit_bundle",
              "processing_errors", "processing_status"}

AgentNames == <<"IngestionAgent", "ClauseExtractionAgent", "RiskScoringAgent",
                "RedlineSuggestionAgent", "NegotiationSummaryAgent",
                "ComplianceAuditAgent">>

\* the session-row column holding the output of stage n (0..5)
SlotFields == <<"normalized_text", "extracted_clauses", "risk_assessments",
                "redline_proposals", "negotiation_summary", "audit_bundle">>

\* Python truthiness of a str / list / Optional[Struct]
Truthy(v) == Len(v) > 0

VARIABLES
    sessions,       \* table sessions: session_id -> row (DOMAIN = existing rows)
    state,          \* table state: session_id -> key -> Optional value
    events,         \* table events: session_id -> set of event types logged
    enable_graceful_degradation,  \* orchestrator constructor flag
    agent_traces,   \* self.agent_traces
    errors,         \* process_contract local `errors`
    session_id,     \* process_contract local `session_id` (Optional)
    file,           \* Optional: the file handed to process_contract
    pc,             \* position inside process_contract
    status,         \* Optional: "status" of the returned result
    calls,          \* number of process_contract calls made so far
    entered,        \* history: stages entered in this call, in order
    invoked,        \* history: stages whose executor was invoked in this call
    failed,         \* history: stages that ended in their except branch
    score_input,    \* history: Optional clause list read by Score at entry
    before_stage,   \* history: the store when the current stage began
    before_call,    \* history: the store when process_contract was called
    store_log,      \* history: the MemoryBank store_* calls made directly, in order
    \* one retry_with_backoff-wrapped stage call (adk/error_handling.py)
    config,         \* the RetryConfig of the wrappers
    stage,          \* the stage whose LLM call is being made
    llm,            \* how generate_content behaves: error kind, and when it succeeds
    stack,          \* wrapper frames, outermost first: [func, attempt]
    pending,        \* Optional: the exception propagating into the top wrapper
    llm_calls,      \* history: number of generate_content invocations
    delays,         \* history: the time.sleep calls: [func, attempt, delay]
    outcome,        \* Optional: how the stage's call ended
    \* process_contract calls running at once on one orchestrator
    lists,          \* the list objects bound to self.agent_traces so far, by identity
    self_agent_traces,  \* which list object self.agent_traces is bound to
    runs,           \* per call: [pc, recorded, returned]
    \* the session store called directly (memory/session_manager.py)
    now,            \* datetime.utcnow(), in hours
    cleanup_hours,  \* DatabaseSessionService.cleanup_hours
    enable_persistence,  \* SessionManager.enable_persistence
    service_calls,  \* number of store calls made directly so far
    last_call,      \* history: Optional [op, session_id, raised, result, before]
    \* one RiskScoringAgent.assess_risks call, clause by clause
    scoring,        \* Optional [clauses, items, next, risk_assessments, pc]
    \* one _run_redline_generation call, finding by finding
    proposing,      \* Optional [clauses, risk_assessments, item_fail, risky,
                    \*           redline_proposals, invoked, pc]
    \* the HTTP API (api/main.py)
    processing_status,  \* session id -> Optional status of the upload
    background_tasks,   \* the tasks attached to a response, which the framework runs
    unattached_tasks,   \* the tasks added to a BackgroundTasks object that no response carries
    cleanup_requested,  \* history: sessions whose results were served with cleanup
    \* process_contract's caller
    user_id,        \* Optional: the user_id argument of the current call
    \* one MemoryBank.store_clauses call, transaction by transaction
    storing         \* Optional [session_id, clauses, session, pc]

pipeline_vars ==
    <<sessions, state, events, enable_graceful_degradation, agent_traces,
      errors, session_id, file, pc, status, calls, entered, invoked,
      failed, score_input, before_stage, before_call, store_log>>

retry_vars == <<config, stage, llm, stack, pending, llm_calls, delays, outcome>>

\* the variables the pipeline and the direct store calls leave alone
concurrent_vars == <<lists, self_agent_traces, runs>>

service_vars == <<now, cleanup_hours, enable_persistence, service_calls, last_call>>

scoring_vars == <<scoring>>

propose_vars == <<proposing>>

api_vars ==
    <<processing_status, background_tasks, unattached_tasks, cleanup_requested>>

caller_vars == <<user_id>>

store_call_vars == <<storing>>

other_vars == <<retry_vars, concurrent_vars, service_vars, scoring_vars, propose_vars, api_vars, caller_vars, store_call_vars>>

\* what one retry-wrapped call leaves alone
outside_retry_vars == <<pipeline_vars, concurrent_vars, service_vars, scoring_vars, propose_vars, api_vars, caller_vars, store_call_vars>>

\* what the concurrent calls leave alone
outside_concurrent_vars == <<pipeline_vars, retry_vars, service_vars, scoring_vars, propose_vars, api_vars, caller_vars, store_call_vars>>

\* what the direct calls on the store leave alone, the tables apart
outside_service_vars == <<retry_vars, concurrent_vars, scoring_vars, propose_vars, api_vars, caller_vars, store_call_vars>>

\* what one assess_risks call leaves alone
outside_scoring_vars == <<pipeline_vars, retry_vars, concurrent_vars, service_vars, propose_vars, api_vars, caller_vars, store_call_vars>>

\* what one redline generation leaves alone
outside_propose_vars ==
    <<pipeline_vars, retry_vars, concurrent_vars, service_vars, scoring_vars, api_vars, caller_vars, store_call_vars>>

\* what the API endpoints leave alone, the tables apart
outside_api_vars ==
    <<retry_vars, concurrent_vars, scoring_vars, propose_vars, caller_vars, store_call_vars>>

\* what the start of a process_contract call leaves alone besides the pipeline
outside_pipeline_vars ==
    <<retry_vars, concurrent_vars, service_vars, scoring_vars, propose_vars,
      api_vars, store_call_vars>>

vars == <<pipeline_vars, other_vars>>

DB == [sessions |-> sessions, state |-> state, events |-> events]

\* ---------------------------------------------------- DatabaseSessionService

\* ContractSession(...) as built by create_session: only the seed is populated
NewSession(sid, user, text, metadata) ==
    [session_id |-> sid, user_id |-> user, contract_metadata |-> metadata,
     normalized_text |-> text, created_at |-> now, updated_at |-> now,
     extracted_clauses |-> <<>>,
     risk_assessments |-> <<>>, redline_proposals |-> <<>>,
     negotiation_summary |-> <<>>, audit_bundle |-> <<>>]

\* msgspec.json.decode(row[10], type=AuditBundle): AuditBundle.negotiation_summary
\* is a required NegotiationSummary, so a stored null does not decode
DecodeFails(row) ==
    /\ Truthy(row.audit_bundle)
    /\ row.audit_bundle[1].negotiation_summary = <<>>

\* get_session returns None when there is no row
SessionFound(db, sid) == sid \in DOMAIN db.sessions

\* get_session raises SessionError when the row does not decode
GetSessionRaises(db, sid) ==
    SessionFound(db, sid) /\ DecodeFails(db.sessions[sid])

get_session(db, sid) == db.sessions[sid]

\* list_sessions(user_id): SELECT ... FROM sessions WHERE user_id = ?
list_sessions(db, user) ==
    {s \in DOMAIN db.sessions : db.sessions[s].user_id = user}

\* INSERT INTO events
log_event(db, sid, event_type) ==
    [db EXCEPT !.events[sid] = @ \cup {event_type}]

\* variant of CreateSessionRaises for INSERT OR REPLACE: no collision
CreateSessionNeverRaises(db, sid) == FALSE

\* INSERT INTO sessions fails on the PRIMARY KEY when the row exists
CreateSessionRaises(db, sid) == sid \in DOMAIN db.sessions

create_session(db, sid, user, text, metadata) ==
    log_event([db EXCEPT !.sessions =
                   [s \in DOMAIN db.sessions \cup {sid} |->
                       IF s = sid THEN NewSession(sid, user, text, metadata)
                       ELSE db.sessions[s]]],
              sid, "session_created")

\* session.updated_at = datetime.utcnow();
\* UPDATE sessions SET <every column> WHERE session_id = ?; then the event
update_session(db, session) ==
    log_event(IF session.session_id \in DOMAIN db.sessions
              THEN [db EXCEPT !.sessions[session.session_id] =
                                  [session EXCEPT !.updated_at = now]]
              ELSE db,
              session.session_id, "session_updated")

\* the rows of the three tables without those of the sessions in ids
without_sessions(db, ids) ==
    [sessions |-> [s \in DOMAIN db.sessions \ ids |-> db.sessions[s]],
     state |-> [s \in DOMAIN db.state |->
                   IF s \in ids THEN [k \in StateKeys |-> <<>>] ELSE db.state[s]],
     events |-> [s \in DOMAIN db.events |->
                   IF s \in ids THEN {} ELSE db.events[s]]]

\* delete_session: DELETE FROM state, events, sessions in one transaction;
\* cursor.rowcount > 0 of the last DELETE
delete_session(db, sid) ==
    [db |-> without_sessions(db, {sid}),
     result |-> sid \in DOMAIN db.sessions]

\* variant of old_sessions that selects on created_at
old_sessions_by_creation(db, hours) ==
    {s \in DOMAIN db.sessions : db.sessions[s].created_at < now - hours}

\* SELECT session_id FROM sessions WHERE updated_at < cutoff_time
old_sessions(db, hours) ==
    {s \in DOMAIN db.sessions : db.sessions[s].updated_at < now - hours}

\* cleanup_old_sessions: delete those sessions with their state and events
cleanup_old_sessions(db, hours) ==
    [db |-> without_sessions(db, old_sessions(db, hours)),
     result |-> Cardinality(old_sessions(db, hours))]

\* INSERT OR REPLACE INTO state (no check that the session exists)
set_state(db, sid, key, value) ==
    [db EXCEPT !.state[sid][key] = <<value>>]

\* ------------------------------------------------------------- MemoryBank

\* every MemoryBank read: SessionError when the session is missing or unreadable
ReadRaises(db, sid) == ~SessionFound(db, sid) \/ GetSessionRaises(db, sid)

StoreFaults == {"none", "update_session", "set_state"}

\* the seven reads of MemoryBank
ReadOps == {"get_clauses", "get_risk_assessments", "get_redline_proposals",
            "get_negotiation_summary", "get_audit_bundle",
            "get_normalized_text", "get_session_state"}

\* what a read returns from the session it found
read_value(session, op) ==
    CASE op = "get_clauses" -> session.extracted_clauses
      [] op = "get_risk_assessments" -> session.risk_assessments
      [] op = "get_redline_proposals" -> session.redline_proposals
      [] op = "get_negotiation_summary" -> session.negotiation_summary
      [] op = "get_audit_bundle" -> session.audit_bundle
      [] op = "get_normalized_text" -> session.normalized_text
      [] op = "get_session_state" -> session

\* variant of read in which a missing session reads as an empty value
read_lenient(db, sid, op) ==
    IF ~SessionFound(db, sid) THEN [raised |-> FALSE, value |-> << <<>> >>]
    ELSE IF GetSessionRaises(db, sid) THEN [raised |-> TRUE, value |-> <<>>]
    ELSE [raised |-> FALSE, value |-> <<read_value(get_session(db, sid), op)>>]

\* one MemoryBank read: SessionError, or the value
read(db, sid, op) ==
    IF ReadRaises(db, sid) THEN [raised |-> TRUE, value |-> <<>>]
    ELSE [raised |-> FALSE, value |-> <<read_value(get_session(db, sid), op)>>]

\* variant of store_slot that leaves a populated slot as it is and succeeds
store_slot_write_once(db, sid, field, key, value, fault) ==
    IF ReadRaises(db, sid) \/ fault = "update_session"
    THEN [db |-> db, raised |-> TRUE]
    ELSE IF Truthy(get_session(db, sid)[field])
    THEN [db |-> db, raised |-> FALSE]
    ELSE LET db1 == update_session(db, [get_session(db, sid) EXCEPT ![field] = value])
         IN  IF fault = "set_state"
             THEN [db |-> db1, raised |-> TRUE]
             ELSE [db |-> set_state(db1, sid, key, value), raised |-> FALSE]

\* the common body of store_clauses .. store_audit_bundle: read the session,
\* set the field, update_session (own transaction), then set_state (another)
store_slot(db, sid, field, key, value, fault) ==
    IF ReadRaises(db, sid) \/ fault = "update_session"
    THEN [db |-> db, raised |-> TRUE]
    ELSE LET db1 == update_session(db, [get_session(db, sid) EXCEPT ![field] = value])
         IN  IF fault = "set_state"
             THEN [db |-> db1, raised |-> TRUE]
             ELSE [db |-> set_state(db1, sid, key, value), raised |-> FALSE]

store_clauses(db, sid, clauses, fault) ==
    store_slot(db, sid, "extracted_clauses", "extracted_clauses", clauses, fault)

store_risk_assessments(db, sid, assessments, fault) ==
    store_slot(db, sid, "risk_assessments", "risk_assessments", assessments, fault)

store_redline_proposals(db, sid, proposals, fault) ==
    store_slot(db, sid, "redline_proposals", "redline_proposals", proposals, fault)

store_negotiation_summary(db, sid, summary, fault) ==
    store_slot(db, sid, "negotiation_summary", "negotiation_summary", <<summary>>, fault)

store_audit_bundle(db, sid, bundle, fault) ==
    store_slot(db, sid, "audit_bundle", "audit_bundle", <<bundle>>, fault)

get_clauses(db, sid) == get_session(db, sid).extracted_clauses
get_risk_assessments(db, sid) == get_session(db, sid).risk_assessments
get_redline_proposals(db, sid) == get_session(db, sid).redline_proposals
get_negotiation_summary(db, sid) == get_session(db, sid).negotiation_summary
get_audit_bundle(db, sid) == get_session(db, sid).audit_bundle

\* ----------------------------------------------------------- stage executors

\* ClauseExtractionAgent.extract_clauses: the validated clauses clause_1..clause_n
ClauseLists == { [i \in 1..n |-> i] : n \in 0..MaxClauses }

\* what _assess_clause does for one clause: a severity, or an exception
ItemOutcomes == Severities \cup {"error"}

\* RiskScoringAgent.assess_risks: one assessment per clause, in order; a clause
\* whose assessment raised gets the default low "Assessment Failed" one
assess_risks(clauses, items) ==
    [i \in 1..Len(clauses) |->
        IF items[i] = "error"
        THEN [clause_id |-> clauses[i], severity |-> "low",
              risk_type |-> "Assessment Failed"]
        ELSE [clause_id |-> clauses[i], severity |-> items[i],
              risk_type |-> "risk"]]

\* variant of assess_one in which a clause whose assessment raised is skipped
assess_one_skipping(assessments, clause, item) ==
    IF item = "error" THEN assessments
    ELSE Append(assessments,
                [clause_id |-> clause, severity |-> item, risk_type |-> "risk"])

\* one turn of the loop of assess_risks: try _assess_clause, except append the
\* default low "Assessment Failed" assessment
assess_one(assessments, clause, item) ==
    IF item = "error"
    THEN Append(assessments,
                [clause_id |-> clause, severity |-> "low",
                 risk_type |-> "Assessment Failed"])
    ELSE Append(assessments,
                [clause_id |-> clause, severity |-> item, risk_type |-> "risk"])

InSeq(x, s) == \E i \in 1..Len(s) : s[i] = x

RiskyAssessment(r) == r.severity \in {"high", "medium"}

ProposalFor(r) == [clause_id |-> r.clause_id]

RECURSIVE MapProposals(_)
MapProposals(rs) ==
    IF rs = <<>> THEN <<>> ELSE <<ProposalFor(Head(rs))>> \o MapProposals(Tail(rs))

\* variant of propose_one that proposes for a finding of any severity
propose_one_any_severity(proposals, clauses, r, item_fail) ==
    IF ~InSeq(r.clause_id, clauses) \/ r.clause_id \in item_fail THEN proposals
    ELSE Append(proposals, ProposalFor(r))

\* one turn of the loop of generate_redlines over the risky assessments: skip
\* when the clause is not found, try _generate_redline_for_clause, except log
\* and go on
propose_one(proposals, clauses, r, item_fail) ==
    IF ~RiskyAssessment(r) THEN proposals
    ELSE IF ~InSeq(r.clause_id, clauses) \/ r.clause_id \in item_fail THEN proposals
    ELSE Append(proposals, ProposalFor(r))

\* RedlineSuggestionAgent.generate_redlines: one proposal per high/medium
\* assessment whose clause exists and whose generation did not raise
generate_redlines(clauses, risk_assessments, item_fail) ==
    MapProposals(SelectSeq(risk_assessments,
        LAMBDA r : /\ RiskyAssessment(r)
                   /\ InSeq(r.clause_id, clauses)
                   /\ r.clause_id \notin item_fail))

\* NegotiationSummaryAgent.generate_summary: the summary bundle
generate_summary(clauses, risk_assessments, redline_proposals) ==
    [priority_issues |->
        SelectSeq(risk_assessments, LAMBDA r : r.severity = "high"),
     total_redlines |-> Len(redline_proposals)]

\* ComplianceAuditAgent.compile_audit_bundle: AuditBundle(...) of the session
\* as read and of the trace list as it is at that moment
compile_audit_bundle(sid, session, traces) ==
    [session_id |-> sid,
     original_contract |-> session.normalized_text,
     extracted_clauses |-> session.extracted_clauses,
     risk_assessments |-> session.risk_assessments,
     redline_proposals |-> session.redline_proposals,
     negotiation_summary |-> session.negotiation_summary,
     agent_traces |-> traces]

\* ------------------------------------------------------------ orchestrator

\* _record_trace: append one AgentTrace
record_trace(traces, agent_name, success) ==
    Append(traces, [agent_name |-> agent_name, success |-> success])

\* what one _run_* call did
Outcome(db, traces, raised, wasInvoked, hasFailed) ==
    [db |-> db, agent_traces |-> traces, raised |-> raised,
     invoked |-> wasInvoked, failed |-> hasFailed]

\* variant of Bypassed in which an early return records a trace as well
BypassedWithTrace(db, traces) ==
    Outcome(db, record_trace(traces, "skipped", TRUE), FALSE, FALSE, FALSE)

\* a return before the executor: nothing stored, no trace
Bypassed(db, traces) == Outcome(db, traces, FALSE, FALSE, FALSE)

\* the success path after the store: trace with success=True
Succeeded(db, traces, agent_name) ==
    Outcome(db, record_trace(traces, agent_name, TRUE), FALSE, TRUE, FALSE)

\* variant of ExceptBranch that never re-raises, whatever the flag
ExceptBranchNoRaise(db, traces, agent_name, degrade, wasInvoked) ==
    Outcome(db, record_trace(traces, agent_name, FALSE), FALSE, wasInvoked, TRUE)

\* the except branch of _run_extraction .. _run_audit_compilation: a failed
\* trace, then re-raise unless graceful degradation is enabled
ExceptBranch(db, traces, agent_name, degrade, wasInvoked) ==
    Outcome(db, record_trace(traces, agent_name, FALSE), ~degrade,
            wasInvoked, TRUE)

\* the resume check of _run_ingestion: the session is read and has text, and
\* the returned dict can be built (it reads contract_metadata.page_count; an
\* exception anywhere in the check is swallowed and ingestion proceeds)
IngestionSkips(db, sid) ==
    /\ ~ReadRaises(db, sid)
    /\ Truthy(get_session(db, sid).normalized_text)
    /\ "page_count" \in ContractMetadataFields

\* variant of run_ingestion whose except branch returns instead of raising
run_ingestion_absorbing(db, traces, sid, f, parsed) ==
    IF IngestionSkips(db, sid) THEN Bypassed(db, traces)
    ELSE IF ~parsed \/ CreateSessionRaises(db, sid)
    THEN ExceptBranch(db, traces, AgentNames[1], TRUE, TRUE)
    ELSE Succeeded(create_session(db, sid, DEFAULT_USER, <<f>>, f),
                   traces, AgentNames[1])

\* _run_ingestion; the except branch always raises DocumentParsingError
run_ingestion(db, traces, sid, f, parsed) ==
    IF IngestionSkips(db, sid) THEN Bypassed(db, traces)
    ELSE IF ~parsed \/ CreateSessionRaises(db, sid)
    THEN ExceptBranch(db, traces, AgentNames[1], FALSE, TRUE)
    ELSE Succeeded(create_session(db, sid, DEFAULT_USER, <<f>>, f),
                   traces, AgentNames[1])

\* _run_extraction; extracted is Optional: <<>> when extract_clauses raised
run_extraction(db, traces, sid, degrade, extracted, fault) ==
    IF ReadRaises(db, sid)
    THEN ExceptBranch(db, traces, AgentNames[2], degrade, FALSE)
    ELSE IF Truthy(get_clauses(db, sid)) THEN Bypassed(db, traces)
    ELSE IF ~Truthy(extracted)
    THEN ExceptBranch(db, traces, AgentNames[2], degrade, TRUE)
    ELSE LET st == store_clauses(db, sid, extracted[1], fault)
         IN  IF st.raised
             THEN ExceptBranch(st.db, traces, AgentNames[2], degrade, TRUE)
             ELSE Succeeded(st.db, traces, AgentNames[2])

\* variant of run_risk_scoring without the early return on an empty clause
\* list: assess_risks is called and raises on it
run_risk_scoring_always_scoring(db, traces, sid, degrade, items, fault) ==
    IF ReadRaises(db, sid)
    THEN ExceptBranch(db, traces, AgentNames[3], degrade, FALSE)
    ELSE IF Truthy(get_risk_assessments(db, sid)) THEN Bypassed(db, traces)
    ELSE IF ~Truthy(get_clauses(db, sid))
    THEN ExceptBranch(db, traces, AgentNames[3], degrade, TRUE)
    ELSE LET st == store_risk_assessments(db, sid,
                       assess_risks(get_clauses(db, sid), items), fault)
         IN  IF st.raised
             THEN ExceptBranch(st.db, traces, AgentNames[3], degrade, TRUE)
             ELSE Succeeded(st.db, traces, AgentNames[3])

\* _run_risk_scoring
run_risk_scoring(db, traces, sid, degrade, items, fault) ==
    IF ReadRaises(db, sid)
    THEN ExceptBranch(db, traces, AgentNames[3], degrade, FALSE)
    ELSE IF ~Truthy(get_clauses(db, sid)) THEN Bypassed(db, traces)
    ELSE IF Truthy(get_risk_assessments(db, sid)) THEN Bypassed(db, traces)
    ELSE LET st == store_risk_assessments(db, sid,
                       assess_risks(get_clauses(db, sid), items), fault)
         IN  IF st.raised
             THEN ExceptBranch(st.db, traces, AgentNames[3], degrade, TRUE)
             ELSE Succeeded(st.db, traces, AgentNames[3])

\* _run_redline_generation
run_redline_generation(db, traces, sid, degrade, item_fail, fault) ==
    IF ReadRaises(db, sid)
    THEN ExceptBranch(db, traces, AgentNames[4], degrade, FALSE)
    ELSE IF ~Truthy(get_clauses(db, sid)) \/ ~Truthy(get_risk_assessments(db, sid))
    THEN Bypassed(db, traces)
    ELSE IF Truthy(get_redline_proposals(db, sid)) THEN Bypassed(db, traces)
    ELSE LET st == store_redline_proposals(db, sid,
                       generate_redlines(get_clauses(db, sid),
                                         get_risk_assessments(db, sid), item_fail),
                       fault)
         IN  IF st.raised
             THEN ExceptBranch(st.db, traces, AgentNames[4], degrade, TRUE)
             ELSE Succeeded(st.db, traces, AgentNames[4])

\* _run_summary_generation; summarized is FALSE when generate_summary raised
run_summary_generation(db, traces, sid, degrade, summarized, fault) ==
    IF ReadRaises(db, sid)
    THEN ExceptBranch(db, traces, AgentNames[5], degrade, FALSE)
    ELSE IF ~Truthy(get_risk_assessments(db, sid)) THEN Bypassed(db, traces)
    ELSE IF Truthy(get_negotiation_summary(db, sid)) THEN Bypassed(db, traces)
    ELSE IF ~summarized
    THEN ExceptBranch(db, traces, AgentNames[5], degrade, TRUE)
    ELSE LET st == store_negotiation_summary(db, sid,
                       generate_summary(get_clauses(db, sid),
                                        get_risk_assessments(db, sid),
                                        get_redline_proposals(db, sid)),
                       fault)
         IN  IF st.raised
             THEN ExceptBranch(st.db, traces, AgentNames[5], degrade, TRUE)
             ELSE Succeeded(st.db, traces, AgentNames[5])

\* _run_audit_compilation
run_audit_compilation(db, traces, sid, degrade, fault) ==
    IF ReadRaises(db, sid)
    THEN ExceptBranch(db, traces, AgentNames[6], degrade, FALSE)
    ELSE IF Truthy(get_audit_bundle(db, sid)) THEN Bypassed(db, traces)
    ELSE LET st == store_audit_bundle(db, sid,
                       compile_audit_bundle(sid, get_session(db, sid), traces),
                       fault)
         IN  IF st.raised
             THEN ExceptBranch(st.db, traces, AgentNames[6], degrade, TRUE)
             ELSE Succeeded(st.db, traces, AgentNames[6])

\* _save_partial_results: two set_custom_state calls inside one try; the first
\* SessionError ends it and is swallowed. saved = how many of them succeed
save_partial_results(db, sid, errs, saved) ==
    IF saved = "none" THEN db
    ELSE LET db1 == set_state(db, sid, "processing_errors", errs)
         IN  IF saved = "errors" THEN db1
             ELSE set_state(db1, sid, "processing_status", "failed")

SaveOutcomes == {"none", "errors", "both"}

\* "status" of the dict process_contract returns
result_status(errs) ==
    IF ~Truthy(errs) THEN "completed" ELSE "completed_with_errors"

\* ------------------------------------------------------- retry_with_backoff

MaxAttempts == 5

\* GEMINI_RETRY_CONFIG (delays in whole seconds)
GEMINI_RETRY_CONFIG ==
    [attempts |-> 5, exp_base |-> 7, initial_delay |-> 1, max_delay |-> 60]

\* the RetryConfig objects considered: the one every wrapper uses, and others
RetryConfigs ==
    {GEMINI_RETRY_CONFIG} \cup
    [attempts : 1..MaxAttempts, exp_base : {1, 2}, initial_delay : {1, 2},
     max_delay : {5}]

RECURSIVE Pow(_, _)
Pow(b, e) == IF e = 0 THEN 1 ELSE b * Pow(b, e - 1)

Min(a, b) == IF a <= b THEN a ELSE b

\* variant of calculate_delay without the cap
calculate_delay_uncapped(cfg, attempt) ==
    cfg.initial_delay * Pow(cfg.exp_base, attempt)

\* RetryConfig.calculate_delay
calculate_delay(cfg, attempt) ==
    Min(cfg.initial_delay * Pow(cfg.exp_base, attempt), cfg.max_delay)

\* the stages whose executor calls the LLM (the audit agent makes no LLM call)
RetryStages == {"Ingest", "Extract", "Score", "Propose", "Summarize"}

\* the retry-wrapped functions on the way to generate_content, outermost first
Wrapped(s) ==
    CASE s = "Ingest"    -> <<"_extract_metadata_with_llm">>
      [] s = "Extract"   -> <<"_extract_with_llm">>
      [] s = "Score"     -> <<"_assess_with_llm">>
      [] s = "Propose"   -> <<"_generate_without_template">>
      [] s = "Summarize" -> <<"_generate_negotiation_materials",
                              "_generate_checklist">>

ErrorKinds == {"transient", "domain"}

\* what the try/except inside the wrapped function does with an exception of
\* generate_content (or of parsing its response): Optional exception raised
BodyRaises(func, error) ==
    CASE func = "_extract_metadata_with_llm" -> <<>>          \* logged, metadata returned
      [] func = "_assess_with_llm"           -> <<>>          \* default assessment returned
      [] func = "_extract_with_llm"          -> <<"domain">>  \* raise ExtractionError
      [] OTHER                               -> <<error>>     \* raise

\* variant of Retryable that lets ContractCopilotError through
RetryableTransientOnly(error) == error # "domain"

\* `except exceptions as e` with exceptions=(Exception,): every error kind
Retryable(error) == error \in ErrorKinds

\* whether an exception leaving the outermost wrapper fails the stage:
\* generate_redlines catches it per clause and goes on
StageFails(s) == s \in {"Extract", "Summarize"}

\* the i-th invocation of generate_content (1-based): Optional error
LLMResult(i) ==
    IF llm.ok_after = <<>> \/ i <= llm.ok_after[1] THEN <<llm.kind>> ELSE <<>>

NoRetryCall ==
    /\ config = GEMINI_RETRY_CONFIG
    /\ stage = "Extract"
    /\ llm = [kind |-> "transient", ok_after |-> <<0>>]
    /\ stack = <<>>
    /\ pending = <<>>
    /\ llm_calls = 0
    /\ delays = <<>>
    /\ outcome = <<>>

Top == stack[Len(stack)]

\* the wrapper calls func; its body calls the next wrapped function
EnterWrapped ==
    /\ outcome = <<>>
    /\ pending = <<>>
    /\ Len(stack) < Len(Wrapped(stage))
    /\ stack' = Append(stack, [func |-> Wrapped(stage)[Len(stack) + 1], attempt |-> 0])
    /\ UNCHANGED <<config, stage, llm, pending, llm_calls, delays, outcome>>
    /\ UNCHANGED outside_retry_vars

\* the innermost body calls generate_content
CallLLM ==
    /\ outcome = <<>>
    /\ pending = <<>>
    /\ Len(stack) = Len(Wrapped(stage))
    /\ llm_calls' = llm_calls + 1
    /\ LET e == LLMResult(llm_calls + 1)
           raised == IF e = <<>> THEN <<>> ELSE BodyRaises(Top.func, e[1])
       IN  IF raised = <<>>
           THEN /\ outcome' = <<[raised |-> FALSE, stage_failed |-> FALSE,
                                 fallback |-> e # <<>>]>>
                /\ stack' = <<>>
                /\ pending' = <<>>
           ELSE /\ pending' = raised
                /\ UNCHANGED <<stack, outcome>>
    /\ UNCHANGED <<config, stage, llm, delays>>
    /\ UNCHANGED outside_retry_vars

\* variant of AttemptsLeft that allows one more iteration
AttemptsLeftInclusive(cfg, attempt) == attempt <= cfg.attempts - 1

\* `if attempt < config.attempts - 1` inside `for attempt in range(config.attempts)`
AttemptsLeft(cfg, attempt) == attempt < cfg.attempts - 1

\* wrapper, except branch with attempts left: sleep, then the next attempt
Backoff ==
    /\ pending # <<>>
    /\ Retryable(pending[1])
    /\ AttemptsLeft(config, Top.attempt)
    /\ delays' = Append(delays, [func |-> Top.func, attempt |-> Top.attempt,
                                 delay |-> calculate_delay(config, Top.attempt)])
    /\ stack' = [stack EXCEPT ![Len(stack)].attempt = @ + 1]
    /\ pending' = <<>>
    /\ UNCHANGED <<config, stage, llm, llm_calls, outcome>>
    /\ UNCHANGED outside_retry_vars

\* wrapper, no attempt left (or an exception it does not catch): the exception
\* leaves the wrapper, into the body of the enclosing one (which re-raises) or
\* out of the agent
Propagate ==
    /\ pending # <<>>
    /\ ~(Retryable(pending[1]) /\ AttemptsLeft(config, Top.attempt))
    /\ stack' = SubSeq(stack, 1, Len(stack) - 1)
    /\ IF Len(stack) = 1
       THEN /\ outcome' = <<[raised |-> TRUE, stage_failed |-> StageFails(stage),
                             fallback |-> FALSE]>>
            /\ pending' = <<>>
       ELSE UNCHANGED <<pending, outcome>>
    /\ UNCHANGED <<config, stage, llm, llm_calls, delays>>
    /\ UNCHANGED outside_retry_vars

\* ----------------------------------- process_contract calls running at once

\* the sessions of the calls that run at once, one call per session
ConcurrentSessions == {"s1", "s2"}

\* each call records at most this many traces (six in the program)
MaxTraces == 2

\* no call is running; self.agent_traces is the list made by __init__
NoConcurrentCall ==
    /\ lists = << <<>> >>
    /\ self_agent_traces = 1
    /\ runs = [s \in ConcurrentSessions |->
                 [pc |-> "idle", recorded |-> <<>>, returned |-> <<>>]]

\* process_contract begins: self.agent_traces = [] binds a new list object
BeginCall(s) ==
    /\ runs[s].pc = "idle"
    /\ lists' = Append(lists, <<>>)
    /\ self_agent_traces' = Len(lists) + 1
    /\ runs' = [runs EXCEPT ![s].pc = "running"]
    /\ UNCHANGED outside_concurrent_vars

\* a stage of the call records its trace: self.agent_traces.append(trace),
\* on whichever list self.agent_traces is bound to now
RecordTrace(s, success) ==
    /\ runs[s].pc = "running"
    /\ Len(runs[s].recorded) < MaxTraces
    /\ LET trace == record_trace(<<>>, AgentNames[Len(runs[s].recorded) + 1],
                                 success)[1]
       IN  /\ lists' = [lists EXCEPT ![self_agent_traces] =
                                    Append(@, [by |-> s, trace |-> trace])]
           /\ runs' = [runs EXCEPT ![s].recorded = Append(@, trace)]
    /\ UNCHANGED self_agent_traces
    /\ UNCHANGED outside_concurrent_vars

\* the call returns {"agent_traces": self.agent_traces, ...}: a reference to
\* the list bound now; Ingest has always recorded a trace by then
ReturnCall(s) ==
    /\ runs[s].pc = "running"
    /\ Len(runs[s].recorded) >= 1
    /\ runs' = [runs EXCEPT ![s].pc = "returned",
                            ![s].returned = <<self_agent_traces>>]
    /\ UNCHANGED <<lists, self_agent_traces>>
    /\ UNCHANGED outside_concurrent_vars

\* ------------------------------------------------- process_contract, by step

\* the three tables without rows, for the session ids in use
EmptyStore(ids) ==
    [sessions |-> [s \in {} |-> <<>>],
     state |-> [s \in ids |-> [k \in StateKeys |-> <<>>]],
     events |-> [s \in ids |-> {}]]

EmptyDB == EmptyStore(SessionIds)

\* SessionManager(cleanup_hours=24, enable_persistence=False)
DEFAULT_CLEANUP_HOURS == 24

\* the user_id values callers pass
UserIds == {DEFAULT_USER, "user_1"}

\* process_contract has not been called
NoCaller == user_id = <<>>

\* the sessions uploaded through the API
ApiSessionIds == {"s1", "s2"}

\* the API has served no request
NoApiCall ==
    /\ processing_status = [s \in ApiSessionIds |-> <<>>]
    /\ background_tasks = {}
    /\ unattached_tasks = {}
    /\ cleanup_requested = {}

\* no redline generation is being followed
NoProposeCall == proposing = <<>>

\* no assess_risks call is being followed
NoScoringCall == scoring = <<>>

\* no store_clauses call is being followed
NoStoreCall == storing = <<>>

\* the store is not called directly
NoServiceCall ==
    /\ now = 0
    /\ cleanup_hours = DEFAULT_CLEANUP_HOURS
    /\ enable_persistence = FALSE
    /\ service_calls = 0
    /\ last_call = <<>>

\* the orchestrator as constructed over an empty database
Constructed ==
    /\ sessions = EmptyDB.sessions
    /\ state = EmptyDB.state
    /\ events = EmptyDB.events
    /\ enable_graceful_degradation \in BOOLEAN
    /\ agent_traces = <<>>
    /\ errors = <<>>
    /\ session_id = <<>>
    /\ file = <<>>
    /\ pc = "idle"
    /\ status = <<>>
    /\ calls = 0
    /\ entered = <<>>
    /\ invoked = <<>>
    /\ failed = <<>>
    /\ score_input = <<>>
    /\ before_stage = EmptyDB
    /\ before_call = EmptyDB
    /\ store_log = <<>>

\* the state after construction: no call is in progress
Init ==
    NoServiceCall /\ Constructed /\ NoRetryCall /\ NoConcurrentCall /\ NoStoreCall /\ NoCaller /\ NoApiCall /\ NoProposeCall /\ NoScoringCall

Resting == pc \in {"idle", "returned", "raised"}

\* uuid.uuid4(): an id no table has seen
FreshId(sid) ==
    /\ sid \notin DOMAIN sessions
    /\ \A k \in StateKeys : state[sid][k] = <<>>
    /\ events[sid] = {}

\* process_contract, lines 183-185: the call starts with fresh traces and errors
ProcessContract(sid, f) ==
    /\ Resting
    /\ calls < MaxCalls
    /\ Truthy(sid) \/ \E fresh \in SessionIds : FreshId(fresh)
    /\ agent_traces' = <<>>
    /\ errors' = <<>>
    /\ session_id' = sid
    /\ file' = <<f>>
    /\ pc' = "ingestion"
    /\ status' = <<>>
    /\ calls' = calls + 1
    /\ entered' = <<>>
    /\ invoked' = <<>>
    /\ failed' = <<>>
    /\ score_input' = <<>>
    /\ before_stage' = DB
    /\ before_call' = DB
    /\ \E u \in UserIds : user_id' = <<u>>
    /\ UNCHANGED <<sessions, state, events, enable_graceful_degradation,
                   store_log>>
    /\ UNCHANGED outside_pipeline_vars

\* what every stage step does with the outcome r of its _run_* call
Step(n, r, next) ==
    /\ sessions' = r.db.sessions
    /\ state' = r.db.state
    /\ events' = r.db.events
    /\ agent_traces' = r.agent_traces
    /\ entered' = Append(entered, n)
    /\ invoked' = IF r.invoked THEN Append(invoked, n) ELSE invoked
    /\ failed' = IF r.failed THEN Append(failed, n) ELSE failed
    /\ before_stage' = DB
    /\ pc' = IF r.raised THEN "except" ELSE next
    /\ UNCHANGED <<enable_graceful_degradation, errors, file, status, calls,
                   before_call, store_log>>
    /\ UNCHANGED other_vars

\* Step 1: Ingestion (the session id is the caller's or a new uuid)
Ingestion(sid, parsed) ==
    /\ pc = "ingestion"
    /\ IF Truthy(session_id) THEN sid = session_id[1] ELSE FreshId(sid)
    /\ LET r == run_ingestion(DB, agent_traces, sid, file[1], parsed)
       IN  /\ Step(0, r, "extraction")
           /\ session_id' = IF r.raised THEN session_id ELSE <<sid>>
    /\ UNCHANGED score_input

\* Step 2: Clause Extraction
Extraction(extracted, fault) ==
    /\ pc = "extraction"
    /\ Step(1, run_extraction(DB, agent_traces, session_id[1],
                              enable_graceful_degradation, extracted, fault),
            "risk_scoring")
    /\ UNCHANGED <<session_id, score_input>>

\* Step 3: Risk Scoring
RiskScoring(items, fault) ==
    /\ pc = "risk_scoring"
    /\ Step(2, run_risk_scoring(DB, agent_traces, session_id[1],
                                enable_graceful_degradation, items, fault),
            "redline")
    /\ score_input' = IF ReadRaises(DB, session_id[1]) THEN <<>>
                      ELSE <<get_clauses(DB, session_id[1])>>
    /\ UNCHANGED session_id

\* Step 4: Redline Suggestions
RedlineGeneration(item_fail, fault) ==
    /\ pc = "redline"
    /\ Step(3, run_redline_generation(DB, agent_traces, session_id[1],
                                      enable_graceful_degradation, item_fail, fault),
            "summary")
    /\ UNCHANGED <<session_id, score_input>>

\* Step 5: Negotiation Summary
SummaryGeneration(summarized, fault) ==
    /\ pc = "summary"
    /\ Step(4, run_summary_generation(DB, agent_traces, session_id[1],
                                      enable_graceful_degradation, summarized, fault),
            "audit")
    /\ UNCHANGED <<session_id, score_input>>

\* Step 6: Compliance Audit
AuditCompilation(fault) ==
    /\ pc = "audit"
    /\ Step(5, run_audit_compilation(DB, agent_traces, session_id[1],
                                     enable_graceful_degradation, fault),
            "finish")
    /\ UNCHANGED <<session_id, score_input>>

\* process_contract, lines 254-268: the result is returned
ReturnResult ==
    /\ pc = "finish"
    /\ status' = <<result_status(errors)>>
    /\ pc' = "returned"
    /\ UNCHANGED <<sessions, state, events, enable_graceful_degradation,
                   agent_traces, errors, session_id, file, calls, entered,
                   invoked, failed, score_input, before_stage, before_call,
                   store_log>>
    /\ UNCHANGED other_vars

\* process_contract, lines 270-280: partial results are saved when a session id
\* is known, and ContractCopilotError is raised to the caller
HandleException(saved) ==
    /\ pc = "except"
    /\ LET db == IF Truthy(session_id)
                 THEN save_partial_results(DB, session_id[1], errors, saved)
                 ELSE DB
       IN  /\ sessions' = db.sessions
           /\ state' = db.state
           /\ events' = db.events
    /\ pc' = "raised"
    /\ UNCHANGED <<enable_graceful_degradation, agent_traces, errors, session_id,
                   file, status, calls, entered, invoked, failed, score_input,
                   before_stage, before_call, store_log>>
    /\ UNCHANGED other_vars

Next ==
    \/ \E sid \in {<<>>} \cup {<<s>> : s \in SessionIds}, f \in Files :
          ProcessContract(sid, f)
    \/ \E sid \in SessionIds, parsed \in BOOLEAN : Ingestion(sid, parsed)
    \/ \E extracted \in {<<>>} \cup {<<c>> : c \in ClauseLists}, fault \in StoreFaults :
          Extraction(extracted, fault)
    \/ \E items \in [ClauseIds -> ItemOutcomes], fault \in StoreFaults :
          RiskScoring(items, fault)
    \/ \E item_fail \in SUBSET ClauseIds, fault \in StoreFaults :
          RedlineGeneration(item_fail, fault)
    \/ \E summarized \in BOOLEAN, fault \in StoreFaults :
          SummaryGeneration(summarized, fault)
    \/ \E fault \in StoreFaults : AuditCompilation(fault)
    \/ ReturnResult
    \/ \E saved \in SaveOutcomes : HandleException(saved)

Spec == Init /\ [][Next]_vars

\* ------------------------------------------- MemoryBank store_*, called directly

\* the store after create_session for a parsed file
CreatedDB(sid, f) == create_session(EmptyDB, sid, DEFAULT_USER, <<f>>, f)

RECURSIVE SuccessTraces(_)
SuccessTraces(n) ==
    IF n = 0 THEN <<>> ELSE record_trace(SuccessTraces(n - 1), AgentNames[n], TRUE)

\* the store after a process_contract call in which every stage succeeded on a
\* one-clause contract of high risk
CompletedDB(sid, f) ==
    LET c  == [i \in 1..1 |-> i]
        r  == assess_risks(c, [i \in ClauseIds |-> "high"])
        p  == generate_redlines(c, r, {})
        d1 == store_clauses(CreatedDB(sid, f), sid, c, "none").db
        d2 == store_risk_assessments(d1, sid, r, "none").db
        d3 == store_redline_proposals(d2, sid, p, "none").db
        d4 == store_negotiation_summary(d3, sid, generate_summary(c, r, p), "none").db
    IN  store_audit_bundle(d4, sid,
            compile_audit_bundle(sid, get_session(d4, sid), SuccessTraces(5)),
            "none").db

\* the values handed to the store operations
RiskInputs ==
    { assess_risks(c, [i \in ClauseIds |-> sev]) :
          c \in ClauseLists, sev \in {"low", "high"} }

RedlineInputs ==
    { generate_redlines(c, assess_risks(c, [i \in ClauseIds |-> "high"]), {}) :
          c \in ClauseLists }

SummaryInputs ==
    { generate_summary(c, assess_risks(c, [i \in ClauseIds |-> "high"]), <<>>) :
          c \in ClauseLists }

TraceInputs == {SuccessTraces(0), SuccessTraces(5)}

InitStore ==
    /\ NoServiceCall
    /\ \E sid \in SessionIds, f \in Files :
          \E db \in {CreatedDB(sid, f), CompletedDB(sid, f)} :
          /\ sessions = db.sessions
          /\ state = db.state
          /\ events = db.events
    /\ enable_graceful_degradation = TRUE
    /\ agent_traces = <<>>
    /\ errors = <<>>
    /\ session_id = <<>>
    /\ file = <<>>
    /\ pc = "idle"
    /\ status = <<>>
    /\ calls = 0
    /\ entered = <<>>
    /\ invoked = <<>>
    /\ failed = <<>>
    /\ score_input = <<>>
    /\ before_stage = EmptyDB
    /\ before_call = EmptyDB
    /\ store_log = <<>>
    /\ NoRetryCall
    /\ NoConcurrentCall /\ NoStoreCall /\ NoCaller /\ NoApiCall /\ NoProposeCall
    /\ NoScoringCall

\* one store_* call on the session row's field with the slot value it writes;
\* r is what the call did
Store(sid, field, value, r) ==
    /\ Len(store_log) < MaxStores
    /\ sessions' = r.db.sessions
    /\ state' = r.db.state
    /\ events' = r.db.events
    /\ store_log' = Append(store_log,
           [session_id |-> sid, field |-> field, value |-> value,
            prev |-> IF SessionFound(DB, sid) THEN sessions[sid][field] ELSE <<>>,
            raised |-> r.raised])
    /\ UNCHANGED <<enable_graceful_degradation, agent_traces, errors, session_id,
                   file, pc, status, calls, entered, invoked, failed, score_input,
                   before_stage, before_call>>
    /\ UNCHANGED other_vars

StoreClauses(sid, clauses, fault) ==
    Store(sid, "extracted_clauses", clauses, store_clauses(DB, sid, clauses, fault))

StoreRiskAssessments(sid, assessments, fault) ==
    Store(sid, "risk_assessments", assessments,
          store_risk_assessments(DB, sid, assessments, fault))

StoreRedlineProposals(sid, proposals, fault) ==
    Store(sid, "redline_proposals", proposals,
          store_redline_proposals(DB, sid, proposals, fault))

StoreNegotiationSummary(sid, summary, fault) ==
    Store(sid, "negotiation_summary", <<summary>>,
          store_negotiation_summary(DB, sid, summary, fault))

\* the bundle is compiled from the session as it is read (the caller's step)
StoreAuditBundle(sid, traces, fault) ==
    /\ ~ReadRaises(DB, sid)
    /\ LET bundle == compile_audit_bundle(sid, get_session(DB, sid), traces)
       IN  Store(sid, "audit_bundle", <<bundle>>,
                 store_audit_bundle(DB, sid, bundle, fault))

NextStore ==
    \/ \E sid \in SessionIds, clauses \in ClauseLists, fault \in StoreFaults :
          StoreClauses(sid, clauses, fault)
    \/ \E sid \in SessionIds, assessments \in RiskInputs, fault \in StoreFaults :
          StoreRiskAssessments(sid, assessments, fault)
    \/ \E sid \in SessionIds, proposals \in RedlineInputs, fault \in StoreFaults :
          StoreRedlineProposals(sid, proposals, fault)
    \/ \E sid \in SessionIds, summary \in SummaryInputs, fault \in StoreFaults :
          StoreNegotiationSummary(sid, summary, fault)
    \/ \E sid \in SessionIds, traces \in TraceInputs, fault \in StoreFaults :
          StoreAuditBundle(sid, traces, fault)

SpecStore == InitStore /\ [][NextStore]_vars

\* ------------------------------------------- one retry-wrapped stage call

\* how generate_content behaves over the call: it raises an error of one kind
\* on its first ok_after invocations, or on every one (ok_after = None)
LLMBehaviours == [kind : ErrorKinds, ok_after : {<<>>, <<0>>, <<1>>, <<2>>}]

InitRetry ==
    /\ NoServiceCall
    /\ Constructed
    /\ config \in RetryConfigs
    /\ stage \in RetryStages
    /\ llm \in LLMBehaviours
    /\ stack = <<>>
    /\ pending = <<>>
    /\ llm_calls = 0
    /\ delays = <<>>
    /\ outcome = <<>>
    /\ NoConcurrentCall /\ NoStoreCall /\ NoCaller /\ NoApiCall /\ NoProposeCall
    /\ NoScoringCall

NextRetry == EnterWrapped \/ CallLLM \/ Backoff \/ Propagate

SpecRetry == InitRetry /\ [][NextRetry]_vars

\* ------------------------------------ assess_risks, clause by clause

\* lists of distinct clause ids, in any order
ScoringClauseLists ==
    { c \in UNION { [1..n -> ClauseIds] : n \in 0..MaxClauses } :
        \A i, j \in DOMAIN c : c[i] = c[j] => i = j }

InitScoring ==
    /\ NoServiceCall
    /\ Constructed
    /\ NoRetryCall
    /\ NoConcurrentCall /\ NoStoreCall /\ NoCaller /\ NoApiCall /\ NoProposeCall
    /\ \E c \in ScoringClauseLists : \E items \in [DOMAIN c -> ItemOutcomes] :
          scoring = <<[clauses |-> c, items |-> items, next |-> 1,
                       risk_assessments |-> <<>>, pc |-> "called"]>>

\* if not clauses: raise RiskAssessmentError
RejectNoClauses ==
    /\ scoring[1].pc = "called"
    /\ ~Truthy(scoring[1].clauses)
    /\ scoring' = <<[scoring[1] EXCEPT !.pc = "raised"]>>
    /\ UNCHANGED outside_scoring_vars

\* for clause in clauses: one turn
AssessClause ==
    /\ scoring[1].pc \in {"called", "loop"}
    /\ scoring[1].next <= Len(scoring[1].clauses)
    /\ scoring' = <<[scoring[1] EXCEPT
           !.pc = "loop",
           !.next = @ + 1,
           !.risk_assessments =
               assess_one(@, scoring[1].clauses[scoring[1].next],
                          scoring[1].items[scoring[1].next])]>>
    /\ UNCHANGED outside_scoring_vars

\* return {"risk_assessments": risk_assessments, ...}
ReturnAssessments ==
    /\ scoring[1].pc = "loop"
    /\ scoring[1].next > Len(scoring[1].clauses)
    /\ scoring' = <<[scoring[1] EXCEPT !.pc = "returned"]>>
    /\ UNCHANGED outside_scoring_vars

NextScoring == RejectNoClauses \/ AssessClause \/ ReturnAssessments

SpecScoring == InitScoring /\ [][NextScoring]_vars

\* ------------------------------- _run_redline_generation, finding by finding

\* most findings handed to one redline generation
MaxFindings == 3

\* the clause lists clause_1..clause_n read from the session
ProposeClauseLists == { [i \in 1..n |-> i] : n \in 0..MaxFindings }

InitPropose ==
    /\ NoServiceCall
    /\ Constructed
    /\ NoRetryCall
    /\ NoConcurrentCall /\ NoStoreCall /\ NoCaller /\ NoApiCall
    /\ NoScoringCall
    /\ \E c \in ProposeClauseLists :
       \E sev \in [DOMAIN c -> Severities] :
       \E assessed \in BOOLEAN :
       \E item_fail \in SUBSET (DOMAIN c) :
          proposing = <<[clauses |-> c,
                         risk_assessments |-> IF assessed THEN assess_risks(c, sev)
                                              ELSE <<>>,
                         item_fail |-> item_fail, next |-> 1,
                         redline_proposals |-> <<>>, invoked |-> FALSE,
                         pc |-> "called"]>>

\* if not clauses or not risk_assessments: return the warning, no proposals
ReturnInsufficientData ==
    /\ proposing[1].pc = "called"
    /\ ~Truthy(proposing[1].clauses) \/ ~Truthy(proposing[1].risk_assessments)
    /\ proposing' = <<[proposing[1] EXCEPT !.pc = "returned"]>>
    /\ UNCHANGED outside_propose_vars

\* self.redline_agent.generate_redlines(...) is called
InvokeRedlineAgent ==
    /\ proposing[1].pc = "called"
    /\ Truthy(proposing[1].clauses) /\ Truthy(proposing[1].risk_assessments)
    /\ proposing' = <<[proposing[1] EXCEPT !.pc = "loop", !.invoked = TRUE]>>
    /\ UNCHANGED outside_propose_vars

\* one finding is looked at
ProposeForFinding ==
    /\ proposing[1].pc = "loop"
    /\ proposing[1].next <= Len(proposing[1].risk_assessments)
    /\ proposing' = <<[proposing[1] EXCEPT
           !.next = @ + 1,
           !.redline_proposals =
               propose_one(@, proposing[1].clauses,
                           proposing[1].risk_assessments[proposing[1].next],
                           proposing[1].item_fail)]>>
    /\ UNCHANGED outside_propose_vars

\* return {"redline_proposals": redline_proposals, ...}
ReturnProposals ==
    /\ proposing[1].pc = "loop"
    /\ proposing[1].next > Len(proposing[1].risk_assessments)
    /\ proposing' = <<[proposing[1] EXCEPT !.pc = "returned"]>>
    /\ UNCHANGED outside_propose_vars

NextPropose ==
    ReturnInsufficientData \/ InvokeRedlineAgent \/ ProposeForFinding
        \/ ReturnProposals

SpecPropose == InitPropose /\ [][NextPropose]_vars

\* ---------------------------------- the session store, called directly

\* the sessions the direct calls are about
ServiceSessionIds == {"s1", "s2"}

\* the clock stops here
MaxTime == 3

\* longest idle window tried
MaxWindow == 2

\* number of direct calls
MaxServiceCalls == 4

CleanupWindows == 1..MaxWindow

\* variant of cleanup_session that ignores the persistence setting
cleanup_session_unconditional(db, sid, persistence) == delete_session(db, sid)

\* SessionManager.cleanup_session: delete_session unless persistence is enabled
cleanup_session(db, sid, persistence) ==
    IF ~persistence THEN delete_session(db, sid)
    ELSE [db |-> db, result |-> FALSE]

InitService ==
    /\ now = 0
    /\ cleanup_hours \in CleanupWindows
    /\ enable_persistence \in BOOLEAN
    /\ service_calls = 0
    /\ last_call = <<>>
    /\ sessions = EmptyStore(ServiceSessionIds).sessions
    /\ state = EmptyStore(ServiceSessionIds).state
    /\ events = EmptyStore(ServiceSessionIds).events
    /\ enable_graceful_degradation = TRUE
    /\ agent_traces = <<>>
    /\ errors = <<>>
    /\ session_id = <<>>
    /\ file = <<>>
    /\ pc = "idle"
    /\ status = <<>>
    /\ calls = 0
    /\ entered = <<>>
    /\ invoked = <<>>
    /\ failed = <<>>
    /\ score_input = <<>>
    /\ before_stage = EmptyDB
    /\ before_call = EmptyDB
    /\ store_log = <<>>
    /\ NoRetryCall
    /\ NoConcurrentCall /\ NoStoreCall /\ NoCaller /\ NoApiCall /\ NoProposeCall
    /\ NoScoringCall

\* one direct call: what it did to the tables, and what the caller got
ServiceCall(op, sid, db, raised, result) ==
    /\ service_calls < MaxServiceCalls
    /\ service_calls' = service_calls + 1
    /\ sessions' = db.sessions
    /\ state' = db.state
    /\ events' = db.events
    /\ last_call' = <<[op |-> op, session_id |-> sid, raised |-> raised,
                       result |-> result, before |-> DB]>>
    /\ UNCHANGED <<now, cleanup_hours, enable_persistence>>
    /\ UNCHANGED <<enable_graceful_degradation, agent_traces, errors, session_id,
                   file, pc, status, calls, entered, invoked, failed, score_input,
                   before_stage, before_call, store_log>>
    /\ UNCHANGED outside_service_vars

\* time passes between calls
Tick ==
    /\ now < MaxTime
    /\ now' = now + 1
    /\ last_call' = <<>>
    /\ UNCHANGED <<cleanup_hours, enable_persistence, service_calls>>
    /\ UNCHANGED <<pipeline_vars, outside_service_vars>>

\* SessionManager.create_new_session(session_id=sid)
CreateNewSession(sid, f) ==
    IF CreateSessionRaises(DB, sid)
    THEN ServiceCall("create_session", sid, DB, TRUE, <<>>)
    ELSE ServiceCall("create_session", sid,
                     create_session(DB, sid, DEFAULT_USER, <<f>>, f), FALSE,
                     <<NewSession(sid, DEFAULT_USER, <<f>>, f)>>)

\* MemoryBank.store_clauses: a slot write
WriteClauses(sid, clauses) ==
    LET r == store_clauses(DB, sid, clauses, "none")
    IN  ServiceCall("store_clauses", sid, r.db, r.raised, <<>>)

\* one of the MemoryBank reads
Read(sid, op) ==
    LET r == read(DB, sid, op)
    IN  ServiceCall(op, sid, DB, r.raised, r.value)

\* DatabaseSessionService.delete_session
DeleteSession(sid) ==
    LET r == delete_session(DB, sid)
    IN  ServiceCall("delete_session", sid, r.db, FALSE, <<r.result>>)

\* ContractReviewOrchestrator.cleanup_session
CleanupSession(sid) ==
    LET r == cleanup_session(DB, sid, enable_persistence)
    IN  ServiceCall("cleanup_session", sid, r.db, FALSE, <<r.result>>)

\* SessionManager.run_cleanup
RunCleanup ==
    LET r == cleanup_old_sessions(DB, cleanup_hours)
    IN  ServiceCall("cleanup_old_sessions", "", r.db, FALSE, <<r.result>>)

NextService ==
    \/ Tick
    \/ \E sid \in ServiceSessionIds, f \in Files : CreateNewSession(sid, f)
    \/ \E sid \in ServiceSessionIds : WriteClauses(sid, <<1>>)
    \/ \E sid \in ServiceSessionIds, op \in ReadOps : Read(sid, op)
    \/ \E sid \in ServiceSessionIds : DeleteSession(sid)
    \/ \E sid \in ServiceSessionIds : CleanupSession(sid)
    \/ RunCleanup

SpecService == InitService /\ [][NextService]_vars

\* --------------------------------------------------------- the HTTP API

\* how process_contract_async ends: the status it records, and whether the
\* session row was created on the way
ProcessOutcomes ==
    {[status |-> "completed", created |-> TRUE],
     [status |-> "completed_with_errors", created |-> TRUE],
     [status |-> "failed", created |-> TRUE],
     [status |-> "failed", created |-> FALSE]}

\* the tasks an endpoint can hand to a BackgroundTasks object
Tasks ==
    [task : {"process_contract_async", "_cleanup_session_data"},
     session_id : ApiSessionIds]

InitApi ==
    /\ now = 0
    /\ cleanup_hours = DEFAULT_CLEANUP_HOURS
    /\ enable_persistence \in BOOLEAN
    /\ service_calls = 0
    /\ last_call = <<>>
    /\ sessions = EmptyStore(ApiSessionIds).sessions
    /\ state = EmptyStore(ApiSessionIds).state
    /\ events = EmptyStore(ApiSessionIds).events
    /\ enable_graceful_degradation = TRUE
    /\ agent_traces = <<>>
    /\ errors = <<>>
    /\ session_id = <<>>
    /\ file = <<>>
    /\ pc = "idle"
    /\ status = <<>>
    /\ calls = 0
    /\ entered = <<>>
    /\ invoked = <<>>
    /\ failed = <<>>
    /\ score_input = <<>>
    /\ before_stage = EmptyDB
    /\ before_call = EmptyDB
    /\ store_log = <<>>
    /\ NoRetryCall
    /\ NoConcurrentCall /\ NoStoreCall /\ NoCaller
    /\ NoProposeCall
    /\ NoScoringCall
    /\ NoApiCall

\* what an endpoint or a task leaves alone besides the tables and its own state
ApiFrame ==
    /\ UNCHANGED <<now, cleanup_hours, enable_persistence, service_calls, last_call>>
    /\ UNCHANGED <<enable_graceful_degradation, agent_traces, errors, session_id,
                   file, pc, status, calls, entered, invoked, failed, score_input,
                   before_stage, before_call, store_log>>
    /\ UNCHANGED outside_api_vars

\* _cleanup_session_data: del processing_status[session_id], then
\* orchestrator.cleanup_session(session_id)
cleanup_session_data(sid) ==
    LET r == cleanup_session(DB, sid, enable_persistence)
    IN  /\ processing_status' = [processing_status EXCEPT ![sid] = <<>>]
        /\ sessions' = r.db.sessions
        /\ state' = r.db.state
        /\ events' = r.db.events

\* POST /upload: a new uuid, status "processing", and process_contract_async
\* added to the BackgroundTasks object the framework injected
UploadContract(sid) ==
    /\ processing_status[sid] = <<>>
    /\ sid \notin DOMAIN sessions
    /\ sid \notin cleanup_requested
    /\ \A t \in background_tasks : t.session_id # sid
    /\ processing_status' = [processing_status EXCEPT ![sid] = <<"processing">>]
    /\ background_tasks' =
           background_tasks \cup {[task |-> "process_contract_async", session_id |-> sid]}
    /\ UNCHANGED <<sessions, state, events, unattached_tasks, cleanup_requested>>
    /\ ApiFrame

\* the framework runs a task attached to a response that was sent
RunBackgroundTask(t, r, f) ==
    /\ t \in background_tasks
    /\ background_tasks' = background_tasks \ {t}
    /\ IF t.task = "process_contract_async"
       THEN /\ processing_status' =
                   [processing_status EXCEPT ![t.session_id] = <<r.status>>]
            /\ LET db == IF r.created
                         THEN create_session(DB, t.session_id, DEFAULT_USER, <<f>>, f)
                         ELSE DB
               IN  /\ sessions' = db.sessions
                   /\ state' = db.state
                   /\ events' = db.events
       ELSE cleanup_session_data(t.session_id)
    /\ UNCHANGED <<unattached_tasks, cleanup_requested>>
    /\ ApiFrame

\* GET /results/{session_id}: on a completed session with cleanup the task is
\* added to a BackgroundTasks() made in the handler; the response returned is
\* a ResultsResponse that does not carry it
GetResults(sid, cleanup) ==
    /\ IF /\ processing_status[sid] # <<>>
          /\ processing_status[sid][1] \notin {"processing", "failed"}
          /\ cleanup
       THEN /\ unattached_tasks' =
                   unattached_tasks \cup {[task |-> "_cleanup_session_data",
                                           session_id |-> sid]}
            /\ cleanup_requested' = cleanup_requested \cup {sid}
       ELSE UNCHANGED <<unattached_tasks, cleanup_requested>>
    /\ UNCHANGED <<sessions, state, events, processing_status, background_tasks>>
    /\ ApiFrame

\* POST /cleanup/{session_id}
CleanupEndpoint(sid) ==
    /\ IF processing_status[sid] = <<>>
       THEN IF SessionFound(DB, sid)
            THEN LET r == cleanup_session(DB, sid, enable_persistence)
                 IN  /\ sessions' = r.db.sessions
                     /\ state' = r.db.state
                     /\ events' = r.db.events
                     /\ UNCHANGED processing_status
            ELSE UNCHANGED <<sessions, state, events, processing_status>>
       ELSE cleanup_session_data(sid)
    /\ UNCHANGED <<background_tasks, unattached_tasks, cleanup_requested>>
    /\ ApiFrame

NextApi ==
    \/ \E sid \in ApiSessionIds : UploadContract(sid)
    \/ \E t \in Tasks, r \in ProcessOutcomes, f \in Files :
          RunBackgroundTask(t, r, f)
    \/ \E sid \in ApiSessionIds, cleanup \in BOOLEAN : GetResults(sid, cleanup)
    \/ \E sid \in ApiSessionIds : CleanupEndpoint(sid)

\* the framework runs every task it was handed
FairApi ==
    WF_vars(\E t \in Tasks, r \in ProcessOutcomes, f \in Files :
                RunBackgroundTask(t, r, f))

SpecApi == InitApi /\ [][NextApi]_vars /\ FairApi

\* ------- MemoryBank.store_clauses beside deletions on the same database

\* the session the store is about
StoredSessionIds == {"s1"}

InitStoreCall == InitService

\* UPDATE sessions SET ... WHERE session_id = ?  (no row: nothing changes,
\* no error), committed on its own connection
update_row(db, session) ==
    IF session.session_id \in DOMAIN db.sessions
    THEN [db EXCEPT !.sessions[session.session_id] =
                        [session EXCEPT !.updated_at = now]]
    ELSE db

\* a step of the store_clauses call: the tables after it, the call's position
StoreStep(db, next) ==
    /\ sessions' = db.sessions
    /\ state' = db.state
    /\ events' = db.events
    /\ storing' = next
    /\ UNCHANGED <<enable_graceful_degradation, agent_traces, errors, session_id,
                   file, pc, status, calls, entered, invoked, failed, score_input,
                   before_stage, before_call, store_log>>
    /\ UNCHANGED service_vars
    /\ UNCHANGED <<retry_vars, concurrent_vars, scoring_vars, propose_vars,
                   api_vars, caller_vars>>

\* store_clauses(session_id, clauses) is called
CallStoreClauses(sid, clauses) ==
    /\ storing = <<>>
    /\ StoreStep(DB, <<[session_id |-> sid, clauses |-> clauses,
                        session |-> <<>>, pc |-> "get_session"]>>)

\* session = get_session(session_id); SessionError when it is missing or
\* cannot be read
StoreGetSession ==
    /\ storing # <<>> /\ storing[1].pc = "get_session"
    /\ IF ReadRaises(DB, storing[1].session_id)
       THEN StoreStep(DB, <<[storing[1] EXCEPT !.pc = "raised"]>>)
       ELSE StoreStep(DB, <<[storing[1] EXCEPT
                               !.session = <<get_session(DB, storing[1].session_id)>>,
                               !.pc = "update_session"]>>)

\* session.extracted_clauses = clauses; update_session: the UPDATE
StoreUpdateRow ==
    /\ storing # <<>> /\ storing[1].pc = "update_session"
    /\ StoreStep(update_row(DB, [storing[1].session[1] EXCEPT
                                   !.extracted_clauses = storing[1].clauses]),
                 <<[storing[1] EXCEPT !.pc = "log_event"]>>)

\* update_session: _log_event(session_id, "session_updated")
StoreLogEvent ==
    /\ storing # <<>> /\ storing[1].pc = "log_event"
    /\ StoreStep(log_event(DB, storing[1].session_id, "session_updated"),
                 <<[storing[1] EXCEPT !.pc = "set_state"]>>)

\* set_state(session_id, "extracted_clauses", ...), then store_clauses returns
StoreSetState ==
    /\ storing # <<>> /\ storing[1].pc = "set_state"
    /\ StoreStep(set_state(DB, storing[1].session_id, "extracted_clauses",
                           storing[1].clauses),
                 <<[storing[1] EXCEPT !.pc = "returned"]>>)

NextStoreCall ==
    \/ Tick
    \/ \E sid \in StoredSessionIds, f \in Files : CreateNewSession(sid, f)
    \/ \E sid \in StoredSessionIds : DeleteSession(sid)
    \/ RunCleanup
    \/ \E sid \in StoredSessionIds : CallStoreClauses(sid, <<1>>)
    \/ StoreGetSession
    \/ StoreUpdateRow
    \/ StoreLogEvent
    \/ StoreSetState

SpecStoreCall == InitStoreCall /\ [][NextStoreCall]_vars

\* ---------- termination: a process_contract call, and a retry-wrapped call

\* The stages' agent calls are taken to terminate, so a stage is one step of
\* the call; the retry loop inside an agent call is followed on its own,
\* attempt by attempt, with the LLM call taken to terminate.

\* the clause lists an extraction yields here: none, or one clause
ShortClauseLists == {c \in ClauseLists : Len(c) <= 1}

InitTermination == InitRetry

\* process_contract is called (no retry-wrapped call is being followed)
StartProcessContract(sid, f) ==
    /\ NoRetryCall
    /\ ProcessContract(sid, f)

\* a retry-wrapped function is called (no process_contract call is being
\* followed)
CallWrapped ==
    /\ pc = "idle"
    /\ EnterWrapped

NextTermination ==
    \/ \E sid \in {<<>>} \cup {<<s>> : s \in SessionIds}, f \in Files :
          StartProcessContract(sid, f)
    \/ \E sid \in SessionIds, parsed \in BOOLEAN : Ingestion(sid, parsed)
    \/ \E extracted \in {<<>>} \cup {<<c>> : c \in ShortClauseLists},
          fault \in StoreFaults :
          Extraction(extracted, fault)
    \/ \E item \in ItemOutcomes, fault \in StoreFaults :
          RiskScoring([c \in ClauseIds |-> item], fault)
    \/ \E item_fail \in {{}, ClauseIds}, fault \in StoreFaults :
          RedlineGeneration(item_fail, fault)
    \/ \E summarized \in BOOLEAN, fault \in StoreFaults :
          SummaryGeneration(summarized, fault)
    \/ \E fault \in StoreFaults : AuditCompilation(fault)
    \/ ReturnResult
    \/ \E saved \in SaveOutcomes : HandleException(saved)
    \/ CallWrapped
    \/ CallLLM
    \/ Backoff
    \/ Propagate

\* a process_contract call is between its start and its end
Running == ~Resting

\* a retry wrapper has been entered and has not returned or raised
Retrying == stack # <<>>

\* a call that has started goes on: the interpreter runs the next statement,
\* and every agent, LLM and storage call it makes terminates
RunStep == (Running \/ Retrying) /\ NextTermination

FairTermination == WF_vars(RunStep)

SpecTermination ==
    InitTermination /\ [][NextTermination]_vars /\ FairTermination

\* ------------------------- two process_contract calls on one orchestrator

InitConcurrent ==
    NoServiceCall /\ Constructed /\ NoRetryCall /\ NoConcurrentCall /\ NoStoreCall /\ NoCaller /\ NoApiCall /\ NoProposeCall /\ NoScoringCall

NextConcurrent ==
    \E s \in ConcurrentSessions :
        \/ BeginCall(s)
        \/ \E success \in BOOLEAN : RecordTrace(s, success)
        \/ ReturnCall(s)

SpecConcurrent == InitConcurrent /\ [][NextConcurrent]_vars

\* ------------------------------------------------------------ the claims

\* slot n (0..5) of a session row is populated
Populated(row, n) == Truthy(row[SlotFields[n + 1]])

\* the session the current call works on exists
HasSession(db) == Truthy(session_id) /\ session_id[1] \in DOMAIN db.sessions

CallEnded == pc \in {"returned", "raised"}

FailedTraces == SelectSeq(agent_traces, LAMBDA t : ~t.success)

\* C1 (as claimed): when process_contract is called for a session whose slots
\* 0..k are populated, only the executors of stages k+1..5 are invoked (in
\* particular not ingestion), and slots 0..k keep their values.
C1_IdempotentResume ==
    \A k \in 0..5 :
        (/\ pc # "idle"
         /\ HasSession(before_call)
         /\ \A n \in 0..k : Populated(before_call.sessions[session_id[1]], n))
        => /\ \A i \in 1..Len(invoked) : invoked[i] > k
           /\ HasSession(DB)
           /\ \A n \in 0..k :
                 sessions[session_id[1]][SlotFields[n + 1]]
                     = before_call.sessions[session_id[1]][SlotFields[n + 1]]

\* slot n of session s has been written: the row holds a value, or a store
\* operation completed for it (possibly with an empty list)
Written(s, n) ==
    \/ Populated(sessions[s], n)
    \/ n > 0 /\ Truthy(state[s][SlotFields[n + 1]])

\* C2 (as claimed): in every reachable store, for every session and n in 0..4,
\* slot n+1 populated implies slot n populated (an earlier slot written with an
\* empty list counts as populated).
C2_StageOrder ==
    \A s \in DOMAIN sessions : \A n \in 0..4 :
        Populated(sessions[s], n + 1) => Written(s, n)

\* C3 (as claimed): the returned status is "completed" exactly when no stage
\* failed in the call and "completed_with_errors" exactly when one did.
C3_FinalStatus ==
    pc = "returned" =>
        /\ (status = <<"completed">>) <=> (failed = <<>>)
        /\ (status = <<"completed_with_errors">>) <=> (failed # <<>>)

\* C4 (as claimed): with degradation enabled, after Extract failed the call is
\* never aborted, Score is entered with an empty clause list, and the call
\* returns a result after entering all six stages.
C4_DegradationContainment ==
    (enable_graceful_degradation /\ InSeq(1, failed)) =>
        /\ pc \notin {"except", "raised"}
        /\ InSeq(2, entered) => score_input = << <<>> >>
        /\ pc = "returned" =>
              /\ entered = <<0, 1, 2, 3, 4, 5>>
              /\ status \in {<<"completed">>, <<"completed_with_errors">>}

\* C5 (as claimed): with degradation disabled, after Score failed no later stage
\* is entered, the redline, summary and audit slots stay absent, and the call
\* ends with a returned result of status "failed".
C5_NoDegradationAbort_Original ==
    (~enable_graceful_degradation /\ InSeq(2, failed)) =>
        /\ entered = <<0, 1, 2>>
        /\ HasSession(DB)
        /\ \A n \in 3..5 : ~Populated(sessions[session_id[1]], n)
        /\ CallEnded => (pc = "returned" /\ status = <<"failed">>)

\* C5 (amended): with degradation disabled, after Score failed no later stage is
\* entered, the redline, summary and audit slots stay absent, and the call ends
\* by raising to the caller: no result and no status is returned; "failed" is
\* at most recorded under the custom-state key processing_status.
C5_NoDegradationAbort ==
    (~enable_graceful_degradation /\ InSeq(2, failed)) =>
        /\ entered = <<0, 1, 2>>
        /\ HasSession(DB)
        /\ \A n \in 3..5 : ~Populated(sessions[session_id[1]], n)
        /\ pc \in {"except", "raised"}
        /\ status = <<>>
        /\ state[session_id[1]]["processing_status"] \in {<<>>, <<"failed">>}

C5_Witness ==
    /\ ~enable_graceful_degradation
    /\ failed = <<2>>
    /\ pc = "raised"
    /\ state[session_id[1]]["processing_status"] = <<"failed">>

\* C6 (as claimed): with degradation disabled, after a stage failed and the call
\* aborted, the session's row and custom state equal what they were when that
\* stage began.
C6_FailureLeavesStateUntouched ==
    (~enable_graceful_degradation /\ pc = "raised" /\ failed # <<>>
        /\ Truthy(session_id)) =>
        /\ sessions = before_stage.sessions
        /\ state[session_id[1]] = before_stage.state[session_id[1]]

LastStore == store_log[Len(store_log)]

C10_TraceErrorCorrespondence ==
    pc = "returned" => Len(FailedTraces) = Len(errors)

\* the stage's call is over
RetryDone == outcome # <<>>

\* generate_content raises on every invocation
AlwaysRaises == llm.ok_after = <<>>

SleptDelays == [i \in 1..Len(delays) |-> delays[i].delay]

\* C11 (as claimed): under the configuration every wrapper uses, when the
\* stage's LLM call raises a transient error on every attempt, it is invoked
\* exactly config.attempts times, the delays between attempts increase
\* strictly up to the cap, and the stage ends failed.
C11_RetryExhaustion ==
    (RetryDone /\ AlwaysRaises /\ llm.kind = "transient"
        /\ config = GEMINI_RETRY_CONFIG) =>
        /\ llm_calls = config.attempts
        /\ \A i \in 1..(Len(delays) - 1) :
              \/ delays[i].delay < delays[i + 1].delay
              \/ delays[i + 1].delay = config.max_delay
        /\ outcome[1].stage_failed

\* C12: every sleep of a wrapper is min(initial_delay * exp_base^i, max_delay)
\* for its attempt index i, never above max_delay, and never follows the final
\* attempt; calculate_delay is non-decreasing in i; and with the default
\* configuration an exhausted call has slept 1, 7, 49 and 60 seconds in order.
C12_BackoffDelay ==
    /\ \A i \in 1..Len(delays) :
          /\ delays[i].delay
                = Min(config.initial_delay * Pow(config.exp_base, delays[i].attempt),
                      config.max_delay)
          /\ delays[i].delay <= config.max_delay
          /\ delays[i].attempt < config.attempts - 1
    /\ \A i \in 0..MaxAttempts :
          calculate_delay(config, i) <= calculate_delay(config, i + 1)
    /\ (RetryDone /\ outcome[1].raised /\ stage = "Extract"
           /\ config = GEMINI_RETRY_CONFIG) =>
          SleptDelays = <<1, 7, 49, 60>>

C12_Witness ==
    /\ config = GEMINI_RETRY_CONFIG
    /\ stage = "Extract"
    /\ RetryDone
    /\ outcome[1].raised
    /\ llm_calls = 5
    /\ Len(delays) = 4

Innermost == Wrapped(stage)[Len(Wrapped(stage))]

LastEntered == entered[Len(entered)]

RowAtEntry == before_stage.sessions[session_id[1]]

\* the last stage returned before its executor, without failing
LastBypassed ==
    /\ entered # <<>>
    /\ ~InSeq(LastEntered, invoked)
    /\ ~InSeq(LastEntered, failed)

\* the early returns on the content of earlier slots: Score without clauses,
\* Propose without clauses or risk assessments, Summarize without risk
\* assessments
InputsMissing(n, row) ==
    \/ n = 2 /\ ~Truthy(row.extracted_clauses)
    \/ n = 3 /\ (~Truthy(row.extracted_clauses) \/ ~Truthy(row.risk_assessments))
    \/ n = 4 /\ ~Truthy(row.risk_assessments)

ReturnedTraces(s) == lists[runs[s].returned[1]]

\* the records the call itself made, in order
OwnTraces(s) ==
    [i \in 1..Len(runs[s].recorded) |-> [by |-> s, trace |-> runs[s].recorded[i]]]

\* C15: with two calls for different sessions running at once on one
\* orchestrator, the agent_traces a call returned hold exactly the records of
\* that call's own stage invocations: none of the other call's, none lost.
C15_TracesScopedToRun ==
    \A s \in ConcurrentSessions :
        runs[s].pc = "returned" => ReturnedTraces(s) = OwnTraces(s)

\* the direct call just made was op
JustCalled(ops) == last_call # <<>> /\ last_call[1].op \in ops

\* the session the call was about existed when it was made
ExistedBefore == last_call[1].session_id \in DOMAIN last_call[1].before.sessions

\* the rows of session s in the three tables are as before the call
RowsUnchanged(s) ==
    /\ (s \in DOMAIN sessions) = (s \in DOMAIN last_call[1].before.sessions)
    /\ s \in DOMAIN sessions => sessions[s] = last_call[1].before.sessions[s]
    /\ state[s] = last_call[1].before.state[s]
    /\ events[s] = last_call[1].before.events[s]

\* no row of session s is left in any table
RowsGone(s) ==
    /\ s \notin DOMAIN sessions
    /\ \A k \in StateKeys : state[s][k] = <<>>
    /\ events[s] = {}

\* C16: create_session with an id that exists fails and leaves the existing
\* record unchanged; with a fresh id it succeeds and yields a session in which
\* only the seed (normalized text, metadata) is populated.
C16_RunCreation ==
    JustCalled({"create_session"}) =>
        LET sid == last_call[1].session_id
        IN  IF ExistedBefore
            THEN /\ last_call[1].raised
                 /\ \A s \in ServiceSessionIds : RowsUnchanged(s)
            ELSE /\ ~last_call[1].raised
                 /\ sid \in DOMAIN sessions
                 /\ last_call[1].result = <<sessions[sid]>>
                 /\ Truthy(sessions[sid].normalized_text)
                 /\ sessions[sid].contract_metadata \in Files
                 /\ sessions[sid].extracted_clauses = <<>>
                 /\ sessions[sid].risk_assessments = <<>>
                 /\ sessions[sid].redline_proposals = <<>>
                 /\ sessions[sid].negotiation_summary = <<>>
                 /\ sessions[sid].audit_bundle = <<>>
                 /\ \A s \in ServiceSessionIds \ {sid} : RowsUnchanged(s)

\* a collision with a session that was written to at a later hour
C16_Witness ==
    /\ JustCalled({"create_session"})
    /\ ExistedBefore
    /\ last_call[1].raised
    /\ Truthy(sessions[last_call[1].session_id].extracted_clauses)
    /\ sessions[last_call[1].session_id].updated_at < now

\* C17: every MemoryBank read for a session id that is not in the store fails
\* with a SessionError and changes nothing in the store.
C17_ReadsOfMissingRun ==
    (JustCalled(ReadOps) /\ ~ExistedBefore) =>
        /\ last_call[1].raised
        /\ last_call[1].result = <<>>
        /\ DB = last_call[1].before

\* a read of a missing session while another session is in the store
C17_Witness ==
    /\ JustCalled({"get_session_state"})
    /\ ~ExistedBefore
    /\ last_call[1].raised
    /\ DOMAIN sessions # {}

\* the sessions whose last write is older than now minus the idle window
Expired ==
    {s \in DOMAIN last_call[1].before.sessions :
        last_call[1].before.sessions[s].updated_at < now - cleanup_hours}

\* C18: cleanup_old_sessions deletes exactly the sessions whose updated_at,
\* refreshed by every slot write, is older than now minus the idle window,
\* with their state and event rows, leaves every other session unchanged and
\* returns the number of sessions deleted.
C18_RetentionSweep ==
    /\ JustCalled({"cleanup_old_sessions"}) =>
          /\ \A s \in Expired : RowsGone(s)
          /\ \A s \in ServiceSessionIds \ Expired : RowsUnchanged(s)
          /\ last_call[1].result = <<Cardinality(Expired)>>
    /\ (JustCalled({"store_clauses"}) /\ ~last_call[1].raised) =>
          sessions[last_call[1].session_id].updated_at = now

\* a sweep that deleted one session and kept one that was created as long ago
\* but written to since
C18_Witness ==
    /\ JustCalled({"cleanup_old_sessions"})
    /\ last_call[1].result = <<1>>
    /\ \E s \in DOMAIN sessions :
          /\ sessions[s].created_at < now - cleanup_hours
          /\ Truthy(sessions[s].extracted_clauses)

\* C19 (as claimed): deleting a run through the store or through the
\* orchestrator's cleanup entry point removes the session with its state and
\* event rows whatever the persistence setting, and returns true exactly when
\* the session existed.
C19_ExplicitDeletion_Original ==
    JustCalled({"delete_session", "cleanup_session"}) =>
        /\ RowsGone(last_call[1].session_id)
        /\ last_call[1].result = <<ExistedBefore>>

\* C19 (amended): delete_session removes the session with its state and event
\* rows whatever the persistence setting and returns true exactly when the
\* session existed; cleanup_session does the same when persistence is
\* disabled, and with persistence enabled keeps everything and returns false.
C19_ExplicitDeletion ==
    /\ JustCalled({"delete_session", "cleanup_session"}) =>
          \A s \in ServiceSessionIds \ {last_call[1].session_id} : RowsUnchanged(s)
    /\ (\/ JustCalled({"delete_session"})
        \/ JustCalled({"cleanup_session"}) /\ ~enable_persistence) =>
          /\ RowsGone(last_call[1].session_id)
          /\ last_call[1].result = <<ExistedBefore>>
    /\ (JustCalled({"cleanup_session"}) /\ enable_persistence) =>
          /\ RowsUnchanged(last_call[1].session_id)
          /\ last_call[1].result = <<FALSE>>

\* with persistence enabled, cleanup_session kept a session that was written to
C19_Witness ==
    /\ JustCalled({"cleanup_session"})
    /\ enable_persistence
    /\ ExistedBefore
    /\ last_call[1].result = <<FALSE>>
    /\ Truthy(sessions[last_call[1].session_id].extracted_clauses)

\* what assess_risks is to return for clause i of its input
ExpectedAssessment(i) ==
    IF scoring[1].items[i] = "error"
    THEN [clause_id |-> scoring[1].clauses[i], severity |-> "low",
          risk_type |-> "Assessment Failed"]
    ELSE [clause_id |-> scoring[1].clauses[i], severity |-> scoring[1].items[i],
          risk_type |-> "risk"]

ProposalsFor(c) ==
    Cardinality({i \in DOMAIN proposing[1].redline_proposals :
                    proposing[1].redline_proposals[i].clause_id = c})

\* the finding about clause c is of medium or high severity
RiskyFinding(c) ==
    \E i \in DOMAIN proposing[1].risk_assessments :
        /\ proposing[1].risk_assessments[i].clause_id = c
        /\ proposing[1].risk_assessments[i].severity \in {"high", "medium"}

\* without clauses or findings the agent is not invoked, the output is empty
EmptyInputBypass ==
    (~Truthy(proposing[1].clauses) \/ ~Truthy(proposing[1].risk_assessments)) =>
        /\ ~proposing[1].invoked
        /\ proposing[1].redline_proposals = <<>>

CleanedUp(s) ==
    /\ processing_status[s] = <<>>
    /\ ~enable_persistence => s \notin DOMAIN sessions

\* C22: after GET /results/{session_id} with cleanup=true on a completed
\* session, the session is eventually removed from processing_status and, when
\* persistence is disabled, deleted from the database.
C22_CleanupAfterRetrieval ==
    \A s \in ApiSessionIds : (s \in cleanup_requested) ~> CleanedUp(s)

\* stage n completed successfully for the session in an earlier call: Ingest
\* created the row; a later stage's store_* went through, with whatever value
CompletedBefore(n) ==
    /\ HasSession(before_call)
    /\ n > 0 => Truthy(before_call.state[session_id[1]][SlotFields[n + 1]])

\* C23: once a stage has completed successfully for a session, no later
\* invocation of that stage for the session calls its executor again or
\* rewrites its slot, also when the stage's output was empty.
C23_FirstCompletionWins ==
    pc # "idle" =>
        \A n \in 0..5 :
            CompletedBefore(n) =>
                /\ ~InSeq(n, invoked)
                /\ HasSession(DB)
                /\ sessions[session_id[1]][SlotFields[n + 1]]
                       = before_call.sessions[session_id[1]][SlotFields[n + 1]]

\* the Audit stage stored its bundle in the call that has just returned
AuditStored ==
    /\ pc = "returned"
    /\ InSeq(5, invoked)
    /\ ~InSeq(5, failed)
    /\ HasSession(DB)
    /\ Truthy(sessions[session_id[1]].audit_bundle)

\* C24: the audit bundle persisted in the session's audit slot holds every
\* trace record process_contract returns in agent_traces for that run, in
\* the same order, the record of the Audit stage included.
C24_BundleCarriesAllTraces ==
    AuditStored =>
        sessions[session_id[1]].audit_bundle[1].agent_traces = agent_traces

\* the call aborted on a stage failure after the session was created
AbortedWithSession ==
    /\ ~enable_graceful_degradation
    /\ pc = "raised"
    /\ failed # <<>>
    /\ HasSession(DB)

\* the trace records of the call are in the store: the audit bundle is the
\* only stored value that holds trace records
TracesPersisted ==
    /\ Truthy(sessions[session_id[1]].audit_bundle)
    /\ sessions[session_id[1]].audit_bundle[1].agent_traces = agent_traces

\* one error message per failed stage is in the session's custom state
ErrorsPersisted ==
    /\ Truthy(state[session_id[1]]["processing_errors"])
    /\ Len(state[session_id[1]]["processing_errors"][1]) = Len(failed)

\* C25: when process_contract aborts after the session exists, the slots
\* written by the stages completed before the abort remain persisted, and the
\* trace records and error messages accumulated up to the abort are persisted
\* with the session.
C25_PartialStateSurvivesAbort ==
    AbortedWithSession =>
        /\ \A n \in 0..5 :
              (InSeq(n, invoked) /\ ~InSeq(n, failed)) => Written(session_id[1], n)
        /\ ErrorsPersisted
        /\ TracesPersisted

\* the current call created its session
CreatedSession ==
    /\ InSeq(0, invoked)
    /\ ~InSeq(0, failed)
    /\ HasSession(DB)

\* C26: the session created by process_contract(user_id=u, ...) is stored with
\* owner u: listing the sessions of u returns it, listing those of any other
\* user does not.
C26_RunOwnership ==
    CreatedSession =>
        \A u \in UserIds :
            (session_id[1] \in list_sessions(DB, u)) <=> (u = user_id[1])

\* C27: after any process_contract call that returns, whatever the stages'
\* outcomes, get_session / get_session_state for the session succeeds and
\* returns the stored slots: every value a store_* accepted decodes on read.
C27_SessionsStayReadable ==
    (pc = "returned" /\ HasSession(DB)) =>
        /\ ~GetSessionRaises(DB, session_id[1])
        /\ ~read(DB, session_id[1], "get_session_state").raised

\* the rows of the state and events tables that refer to session s
StateRows(s) == {k \in StateKeys : state[s][k] # <<>>}

EventRows(s) == events[s]

\* C28: in every reachable state, every row of the state table and of the
\* events table refers to a session that exists in the sessions table, also
\* after a call with a caller-supplied id fails at ingestion and saves its
\* partial results.
C28_NoOrphanRows ==
    \A s \in DOMAIN state :
        s \notin DOMAIN sessions => StateRows(s) = {} /\ EventRows(s) = {}

\* the store_clauses call returns to its caller in this step
StoreReturns ==
    /\ storing # <<>> /\ storing[1].pc = "set_state"
    /\ storing'[1].pc = "returned"

\* C29: a store_clauses call that interleaves with delete_session or
\* cleanup_old_sessions never returns successfully while the session is gone:
\* when it returns, the session exists and holds the written clauses
\* (otherwise it raises SessionError).
C29_StoreNeverSucceedsOnDeletedRun ==
    [][StoreReturns =>
          /\ storing[1].session_id \in DOMAIN sessions'
          /\ sessions'[storing[1].session_id].extracted_clauses
                 = storing[1].clauses]_vars

\* no stage is entered twice in the current call
EachStageOnce ==
    \A i, j \in 1..Len(entered) : entered[i] = entered[j] => i = j

\* every retry loop on the stack is within its config.attempts iterations
\* (attempt is the 0-based index of the iteration)
AttemptsBounded ==
    \A i \in 1..Len(stack) : stack[i].attempt + 1 <= config.attempts

\* C30: every process_contract call eventually returns a result or raises
\* ContractCopilotError, and every retry-wrapped call eventually returns or
\* raises; each retry loop performs at most config.attempts iterations and the
\* pipeline enters each of the six stages at most once per call.
C30_Termination ==
    /\ Running ~> CallEnded
    /\ Retrying ~> RetryDone
    /\ []AttemptsBounded
    /\ []EachStageOnce

\* a call that went through all six stages has returned
C30_Witness ==
    /\ pc = "returned"
    /\ entered = <<0, 1, 2, 3, 4, 5>>
    /\ calls = MaxCalls

====
